---- MODULE Spec2Model ----
(***************************************************************************)
(* Model of the movie-watchlist API (src/api/app.py): one "movies" table   *)
(* in an external PostgreSQL store (the default DATABASE_URL), the         *)
(* module-level startup block that creates the table and preloads the      *)
(* Nolan movies, and the four request handlers.  Several server processes  *)
(* may run the module against the same store.  Every handler is a single   *)
(* statement in its own transaction (engine.begin / engine.connect), so a  *)
(* handler is one atomic step; the startup transaction holds two           *)
(* statements (the select and the seed insert) and is three steps: check,  *)
(* insert, commit.  The store runs READ COMMITTED: a statement sees the    *)
(* rows committed when it starts, and rows inserted by an open transaction *)
(* are invisible to the others until it commits.                           *)
(***************************************************************************)
EXTENDS Integers, Sequences, FiniteSets, TLC

\* ---- bounds ------------------------------------------------------------
NumProcs == 2          \* server processes sharing the store
MaxId == 8             \* cap of the id sequence (guards of the inserts)
MaxAdds == 1           \* POST requests issued over the lifetime of the store

Procs == 1..NumProcs
Ids == 1..MaxId

\* ---- values ------------------------------------------------------------
Null == "<null>"       \* SQL NULL / Python None / JSON null
Absent == "<absent>"   \* key not present in the JSON object

\* request bodies of POST /movies; `present` is FALSE when get_json() is None
NoBody == [present |-> FALSE, title |-> Absent, genre |-> Absent,
           image_url |-> Absent, status |-> Absent]
EmptyObj == [present |-> TRUE, title |-> Absent, genre |-> Absent,
             image_url |-> Absent, status |-> Absent]
Bodies ==
    { NoBody,
      [present |-> TRUE, title |-> "Dunkirk", genre |-> "War",
       image_url |-> Absent, status |-> Absent],
      [present |-> TRUE, title |-> "Memento", genre |-> Absent,
       image_url |-> "https://img/memento", status |-> "true"],
      [present |-> TRUE, title |-> Absent, genre |-> "War",
       image_url |-> Absent, status |-> "false"] }

\* data = request.get_json() or {}
GetJson(body) == IF body.present THEN body ELSE EmptyObj

\* data.get(k): None when the key is absent
Get(data, k) == IF data[k] = Absent THEN Null ELSE data[k]

VARIABLES
    tableExists,   \* the movies table has been created (committed)
    rows,          \* committed rows of the movies table
    nextId,        \* next value of the id sequence (autoincrement)
    pc,            \* per process: "down", "checked", "inserted", "serving"
    pending,       \* per process: rows inserted by its open startup transaction
    resp,          \* the last response a handler returned, with its route
    deleted,       \* history: ids whose row a delete removed
    addCount,      \* history: number of POST requests executed
    seedCount      \* history: number of committed seed inserts

vars == <<tableExists, rows, nextId, pc, pending, resp, deleted, addCount, seedCount>>

\* ---- the movies table --------------------------------------------------
\* Column("title", String(200), nullable=False): the insert is rejected
\* (variant: the column declared nullable)
NotNullAlways(title) == TRUE
NotNullOK(title) == title # Null

LiveIds(rs) == {r.id : r \in rs}
HasRow(rs, id) == id \in LiveIds(rs)
RowOf(rs, id) == CHOOSE r \in rs : r.id = id

Max(S) == CHOOSE x \in S : \A y \in S : y <= x

\* Column("id", Integer, primary_key=True, autoincrement=True): a sequence
\* that never goes back, whatever is deleted or rolled back
\* (variant: max(id) + 1, which hands the id of a deleted last row out again)
NextValReuse(rs, seqval) == IF rs = {} THEN 1 ELSE Max(LiveIds(rs)) + 1
NextVal(rs, seqval) == seqval

\* rows in storage order, as the select returns them
RECURSIVE SeqOf(_)
SeqOf(rs) ==
    IF rs = {} THEN <<>>
    ELSE LET m == CHOOSE r \in rs : \A q \in rs : r.id <= q.id
         IN <<m>> \o SeqOf(rs \ {m})

\* movies.insert().values(title=..., genre=..., status=False, image_url=...)
\* (variant: status taken from the body)
insert_values_status(data, id) ==
    [id |-> id, title |-> Get(data, "title"), genre |-> Get(data, "genre"),
     status |-> (Get(data, "status") = "true"),
     image_url |-> Get(data, "image_url")]
insert_values(data, id) ==
    [id |-> id, title |-> Get(data, "title"), genre |-> Get(data, "genre"),
     status |-> FALSE, image_url |-> Get(data, "image_url")]

\* movies.update().where(movies.c.id == movie_id).values(status=True)
\* (variants: no WHERE clause; status toggled)
update_all(rs, id) == {[r EXCEPT !.status = TRUE] : r \in rs}
update_toggle(rs, id) ==
    {IF r.id = id THEN [r EXCEPT !.status = ~r.status] ELSE r : r \in rs}
update_where(rs, id) ==
    {IF r.id = id THEN [r EXCEPT !.status = TRUE] ELSE r : r \in rs}

\* movies.delete().where(movies.c.id == movie_id)
\* (variant: no WHERE clause)
delete_all(rs, id) == {}
delete_where(rs, id) == {r \in rs : r.id # id}

\* res.rowcount of the update / delete
\* (variant: rowcount not looked at)
rowcount_one(rs, id) == 1
rowcount(rs, id) == Cardinality({r \in rs : r.id = id})

\* ---- startup block -----------------------------------------------------
\* the seed list (variant: the last entry lost)
nolan_movies_short ==
    << [title |-> "Inception", genre |-> "Sci-Fi", status |-> FALSE,
        image_url |-> "https://images.unsplash.com/photo-1524985069026-dd778a71c7b4"],
       [title |-> "Interstellar", genre |-> "Sci-Fi", status |-> FALSE,
        image_url |-> "https://images.unsplash.com/photo-1462331940025-496dfbfc7564"],
       [title |-> "The Dark Knight", genre |-> "Action", status |-> FALSE,
        image_url |-> "https://images.unsplash.com/photo-1517602302552-471fe67acf66"] >>
nolan_movies ==
    << [title |-> "Inception", genre |-> "Sci-Fi", status |-> FALSE,
        image_url |-> "https://images.unsplash.com/photo-1524985069026-dd778a71c7b4"],
       [title |-> "Interstellar", genre |-> "Sci-Fi", status |-> FALSE,
        image_url |-> "https://images.unsplash.com/photo-1462331940025-496dfbfc7564"],
       [title |-> "The Dark Knight", genre |-> "Action", status |-> FALSE,
        image_url |-> "https://images.unsplash.com/photo-1517602302552-471fe67acf66"],
       [title |-> "Tenet", genre |-> "Sci-Fi/Action", status |-> FALSE,
        image_url |-> "https://images.unsplash.com/photo-1522120692562-5d7a83e9f50a"] >>

NumSeeds == Len(nolan_movies)

\* result.first() is None
\* (variant: the emptiness test dropped)
first_is_none_always(rs) == TRUE
first_is_none(rs) == rs = {}

\* the routes are served by app.run, which the module reaches after the
\* startup block has left its `with` (commit)
\* (variant: the server started before the startup block)
ServingAnytime(p) == TRUE
Serving(p) == pc[p] = "serving"

NoResp == [op |-> "none", code |-> 0, json |-> [none |-> TRUE]]

Init ==
    /\ tableExists = FALSE
    /\ rows = {}
    /\ nextId = 1
    /\ pc = [p \in Procs |-> "down"]
    /\ pending = [p \in Procs |-> {}]
    /\ resp = NoResp
    /\ deleted = {}
    /\ addCount = 0
    /\ seedCount = 0

\* engine.begin(); metadata.create_all(conn); result = conn.execute(select);
\* result.first() is None?  When the table is not there yet this transaction
\* creates it; a second process doing the same would fail on the first one's
\* uncommitted CREATE TABLE, so it cannot get past create_all.
\* A non-empty result leaves the `with` at once: commit of nothing.
StartupCheck(p) ==
    /\ pc[p] = "down"
    /\ tableExists \/ \A q \in Procs : pc[q] = "down"
    /\ pc' = [pc EXCEPT ![p] = IF first_is_none(rows) THEN "checked" ELSE "serving"]
    /\ UNCHANGED <<tableExists, rows, nextId, pending, resp, deleted, addCount, seedCount>>

\* conn.execute(movies.insert(), nolan_movies): ids come from the sequence
\* now, the rows stay invisible to the other transactions
StartupInsert(p) ==
    /\ pc[p] = "checked"
    /\ nextId + NumSeeds - 1 <= MaxId
    /\ pending' = [pending EXCEPT ![p] =
           {[id |-> NextVal(rows, nextId) + k - 1, title |-> nolan_movies[k].title,
             genre |-> nolan_movies[k].genre, status |-> nolan_movies[k].status,
             image_url |-> nolan_movies[k].image_url] : k \in 1..NumSeeds}]
    /\ nextId' = nextId + NumSeeds
    /\ pc' = [pc EXCEPT ![p] = "inserted"]
    /\ UNCHANGED <<tableExists, rows, resp, deleted, addCount, seedCount>>

\* leaving `with engine.begin()`: commit
StartupCommit(p) ==
    /\ pc[p] = "inserted"
    /\ rows' = rows \cup pending[p]
    /\ pending' = [pending EXCEPT ![p] = {}]
    /\ tableExists' = TRUE
    /\ seedCount' = seedCount + 1
    /\ pc' = [pc EXCEPT ![p] = "serving"]
    /\ UNCHANGED <<nextId, resp, deleted, addCount>>

\* the process ends (app.run returns or the process is killed); an open
\* startup transaction is rolled back, the sequence is not
Stop(p) ==
    /\ pc[p] # "down"
    /\ pc' = [pc EXCEPT ![p] = "down"]
    /\ pending' = [pending EXCEPT ![p] = {}]
    /\ UNCHANGED <<tableExists, rows, nextId, resp, deleted, addCount, seedCount>>

\* ---- request handlers --------------------------------------------------
\* GET /movies
list_movies(p) ==
    /\ Serving(p)
    /\ resp' = [op |-> "list", code |-> 200, json |-> [array |-> SeqOf(rows)]]
    /\ UNCHANGED <<tableExists, rows, nextId, pc, pending, deleted, addCount, seedCount>>

\* POST /movies
add_movie(p, body) ==
    /\ Serving(p)
    /\ nextId <= MaxId
    /\ addCount < MaxAdds
    /\ addCount' = addCount + 1
    /\ LET data == GetJson(body)
           id == NextVal(rows, nextId)
       IN /\ nextId' = nextId + 1
          /\ IF NotNullOK(Get(data, "title"))
             THEN /\ rows' = rows \cup {insert_values(data, id)}
                  /\ resp' = [op |-> "add", code |-> 201, json |-> [id |-> id]]
             ELSE \* IntegrityError: rollback, unhandled exception
                  /\ rows' = rows
                  /\ resp' = [op |-> "add", code |-> 500, json |-> [none |-> TRUE]]
    /\ UNCHANGED <<tableExists, pc, pending, deleted, seedCount>>

\* PUT /movies/<id>
mark_watched(p, movie_id) ==
    /\ Serving(p)
    /\ rows' = update_where(rows, movie_id)
    /\ resp' = IF rowcount(rows, movie_id) # 0
               THEN [op |-> "put", code |-> 200, json |-> [status |-> "updated"]]
               ELSE [op |-> "put", code |-> 404, json |-> [error |-> "not found"]]
    /\ UNCHANGED <<tableExists, nextId, pc, pending, deleted, addCount, seedCount>>

\* DELETE /movies/<id>
delete_movie(p, movie_id) ==
    /\ Serving(p)
    /\ rows' = delete_where(rows, movie_id)
    /\ resp' = IF rowcount(rows, movie_id) # 0
               THEN [op |-> "delete", code |-> 200, json |-> [deleted |-> movie_id]]
               ELSE [op |-> "delete", code |-> 404, json |-> [error |-> "not found"]]
    /\ deleted' = IF rowcount(rows, movie_id) # 0
                  THEN deleted \cup {movie_id} ELSE deleted
    /\ UNCHANGED <<tableExists, nextId, pc, pending, addCount, seedCount>>

Next ==
    \/ \E p \in Procs : StartupCheck(p)
    \/ \E p \in Procs : StartupInsert(p)
    \/ \E p \in Procs : StartupCommit(p)
    \/ \E p \in Procs : Stop(p)
    \/ \E p \in Procs : list_movies(p)
    \/ \E p \in Procs, body \in Bodies : add_movie(p, body)
    \/ \E p \in Procs, movie_id \in Ids : mark_watched(p, movie_id)
    \/ \E p \in Procs, movie_id \in Ids : delete_movie(p, movie_id)

Spec == Init /\ [][Next]_vars

\* ---- helpers of the properties -----------------------------------------
PendingIds == UNION {LiveIds(pending[p]) : p \in Procs}

\* ids that identify, or have identified, a row
EverAssigned == LiveIds(rows) \cup deleted \cup PendingIds

\* what insert stores for a key of the request body
Supplied(body, k) == IF body[k] = Absent THEN Null ELSE body[k]

IdsOfArray(a) == {a[k].id : k \in 1..Len(a)}

SeedTitles == {"Inception", "Interstellar", "The Dark Knight", "Tenet"}

\* ---- C1 ----------------------------------------------------------------
\* C1: a delete on an id that has a row removes exactly that row, leaves
\* every other row as it was and answers 200 {deleted: id}; a delete on an
\* id without a row (a second delete included) answers 404 {error: "not
\* found"} and changes nothing; no list issued after a delete holds the id.
C1_DeleteExactlyThatRow ==
    /\ [](/\ \A i \in deleted : ~HasRow(rows, i)
          /\ resp.op = "list" => IdsOfArray(resp.json.array) \cap deleted = {})
    /\ [][\A p \in Procs, i \in Ids :
            (resp'.op = "delete" /\ delete_movie(p, i)) =>
              IF HasRow(rows, i)
              THEN /\ rows' = rows \ {RowOf(rows, i)}
                   /\ Cardinality(rows') = Cardinality(rows) - 1
                   /\ resp' = [op |-> "delete", code |-> 200, json |-> [deleted |-> i]]
                   /\ i \notin IdsOfArray(SeqOf(rows'))
              ELSE /\ rows' = rows
                   /\ resp' = [op |-> "delete", code |-> 404,
                               json |-> [error |-> "not found"]]]_vars

\* a delete has removed one row and other rows are still there
C1_Witness ==
    /\ resp.op = "delete" /\ resp.code = 200
    /\ resp.json.deleted \in deleted
    /\ ~HasRow(rows, resp.json.deleted)
    /\ rows # {}

\* ---- C2 ----------------------------------------------------------------
\* C2: mark-watched on an id that has a row sets that row's status to true,
\* keeps its id, title, genre and image_url and every other row, and answers
\* 200 {status: "updated"}; on an already watched row it answers the same and
\* the store is unchanged.
C2_MarkWatchedOnlyStatus ==
    [][\A p \in Procs, i \in Ids :
         (resp'.op = "put" /\ HasRow(rows, i) /\ mark_watched(p, i)) =>
           LET r == RowOf(rows, i)
           IN /\ rows' = (rows \ {r}) \cup
                    {[id |-> r.id, title |-> r.title, genre |-> r.genre,
                      status |-> TRUE, image_url |-> r.image_url]}
              /\ resp' = [op |-> "put", code |-> 200, json |-> [status |-> "updated"]]
              /\ r.status => rows' = rows]_vars

\* a mark-watched succeeded, and an unwatched row stands next to a watched one
C2_Witness ==
    /\ resp.op = "put" /\ resp.code = 200
    /\ \E r \in rows : r.status
    /\ \E r \in rows : ~r.status

\* ---- C3 ----------------------------------------------------------------
\* C3: mark-watched on an id without a row answers 404 {error: "not found"},
\* leaves every row unchanged and creates none.
C3_MarkWatchedMissing ==
    [][\A p \in Procs, i \in Ids :
         (resp'.op = "put" /\ ~HasRow(rows, i) /\ mark_watched(p, i)) =>
           /\ rows' = rows
           /\ resp' = [op |-> "put", code |-> 404, json |-> [error |-> "not found"]]]_vars

\* a mark-watched was answered not-found while the table holds rows
C3_Witness ==
    /\ resp.op = "put" /\ resp.code = 404
    /\ rows # {}
    /\ deleted # {}

\* ---- C4 ----------------------------------------------------------------
\* C4: after a successful add, the list holds the returned id exactly once,
\* with status false whatever status the body carried, and with the title,
\* genre and image_url of the body.
C4_AddThenList ==
    [][\A p \in Procs, body \in Bodies :
         (resp'.op = "add" /\ resp'.code = 201 /\ add_movie(p, body)) =>
           LET a == SeqOf(rows')
               at == {k \in 1..Len(a) : a[k].id = resp'.json.id}
           IN /\ Cardinality(at) = 1
              /\ \A k \in at :
                   /\ a[k].status = FALSE
                   /\ a[k].title = Supplied(body, "title")
                   /\ a[k].genre = Supplied(body, "genre")
                   /\ a[k].image_url = Supplied(body, "image_url")]_vars

\* the add whose body carried status "true" has succeeded
C4_Witness ==
    /\ resp.op = "add" /\ resp.code = 201
    /\ \E r \in rows : r.id = resp.json.id /\ r.title = "Memento" /\ ~r.status

\* ---- C5 ----------------------------------------------------------------
\* C5: the id a successful add returns was never assigned before, deleted
\* rows included, and a deleted id never identifies a row again.
C5_FreshIds ==
    /\ [](deleted \cap (LiveIds(rows) \cup PendingIds) = {})
    /\ [][\A p \in Procs, body \in Bodies :
            (resp'.op = "add" /\ resp'.code = 201 /\ add_movie(p, body)) =>
              /\ resp'.json.id \notin EverAssigned
              /\ LiveIds(rows') = LiveIds(rows) \cup {resp'.json.id}]_vars

\* an add succeeded after a row had been deleted
C5_Witness ==
    /\ resp.op = "add" /\ resp.code = 201
    /\ HasRow(rows, resp.json.id)
    /\ deleted # {}

\* ---- C6 ----------------------------------------------------------------
\* C6: a row's status never goes from true to false, and a deleted row's id
\* never comes back (with whatever status).
C6_StatusMonotone ==
    /\ [](\A i \in deleted : ~HasRow(rows, i))
    /\ [][\A r \in rows : r.status =>
            \A q \in rows' : q.id = r.id => q.status]_vars

\* a watched row is there after a later request of another kind
C6_Witness ==
    /\ \E r \in rows : r.status
    /\ resp.op \in {"add", "delete", "list"}

C8_Original ==
    [][\A p \in Procs, body \in Bodies :
         (resp'.op = "add" /\ add_movie(p, body)) =>
           /\ resp'.code = 201
           /\ \E r \in rows' :
                /\ r.id = resp'.json.id
                /\ r.title = Supplied(body, "title")
                /\ r.status = FALSE]_vars

\* C8 amended: an add without a title (or without a body) is rejected by
\* the NOT NULL title column: no row is inserted and the answer is 500; an
\* add with a title and without genre or image_url inserts a row with those
\* columns null and status false and answers 201 with the new id.
C8_TitleRequired ==
    [][\A p \in Procs, body \in Bodies :
         (resp'.op = "add" /\ add_movie(p, body)) =>
           IF Supplied(body, "title") = Null
           THEN rows' = rows /\ resp'.code = 500
           ELSE /\ resp'.code = 201
                /\ \E r \in rows' \ rows :
                     /\ r.id = resp'.json.id
                     /\ r.status = FALSE
                     /\ r.genre = Supplied(body, "genre")
                     /\ r.image_url = Supplied(body, "image_url")
                /\ \A r \in rows' : r.title # Null]_vars

\* an add was rejected
C8_Witness ==
    /\ resp.op = "add" /\ resp.code = 500
    /\ \A r \in rows : r.title # Null

\* ---- C9 ----------------------------------------------------------------
\* C9 as claimed: over the lifetime of the store the seed set is inserted at
\* most once.
C9_Original == seedCount <= 1

\* C9 amended: the seed set is inserted only by a process start whose check
\* found the table empty, one set per such start; a start after every row
\* was deleted inserts it again.
C9_SeedOnlyWhenEmpty ==
    [][/\ \A p \in Procs :
            /\ (pc[p] # "checked" /\ pc'[p] = "checked") =>
                  pc[p] = "down" /\ rows = {}
            /\ (pc[p] # "inserted" /\ pc'[p] = "inserted") =>
                  pc[p] = "checked" /\ Cardinality(pending'[p]) = 4
            /\ pending'[p] # {} => pc'[p] = "inserted"
       /\ seedCount' # seedCount =>
            /\ seedCount' = seedCount + 1
            /\ \E p \in Procs : pc[p] = "inserted" /\ rows' = rows \cup pending[p]]_vars

\* the table was emptied and a later start has seeded it again
C9_Witness ==
    /\ seedCount = 2
    /\ Cardinality(deleted) >= 4

\* ---- C10 ---------------------------------------------------------------
\* C10 as claimed: between a process's emptiness check and its seed insert
\* no add or delete changes the table.
C10_Original ==
    [][\A p \in Procs :
         (pc[p] = "checked" /\ pc'[p] = "checked") =>
           /\ ~\E q \in Procs, body \in Bodies : add_movie(q, body) /\ rows' # rows
           /\ ~\E q \in Procs, i \in Ids : delete_movie(q, i) /\ rows' # rows]_vars

HandlerStep(p) ==
    \/ list_movies(p)
    \/ \E body \in Bodies : add_movie(p, body)
    \/ \E i \in Ids : mark_watched(p, i)
    \/ \E i \in Ids : delete_movie(p, i)

\* C10 amended: a process executes a request handler only after its own
\* startup transaction has committed; handlers of another process may run
\* between its check and its seed insert.
C10_OwnStartupFirst ==
    [][\A p \in Procs :
         (pc[p] # "serving" \/ pending[p] # {}) => ~HandlerStep(p)]_vars

\* a handler has answered while another process is inside its startup
C10_Witness ==
    /\ resp.op # "none"
    /\ \E p \in Procs : pc[p] = "serving"
    /\ \E q \in Procs : pc[q] \in {"checked", "inserted"}

====
